---- MODULE Spec2Model ----
(***************************************************************************)
(* State-machine model of RecordEEGPersonality.py (EEGRecorderApp).        *)
(*                                                                         *)
(* Threads of control:                                                     *)
(*   - the Tk main loop, which runs the <KeyRelease> binding               *)
(*     (enable_buttons) and the button commands (toggle_recording);        *)
(*   - monitor_muse_connection, a daemon thread;                           *)
(*   - one record_data daemon thread per start action;                     *)
(*   - one update_stopwatch daemon thread per start action.                *)
(*                                                                         *)
(* Widget calls made by a daemon thread are executed by the main loop, so  *)
(* they happen only while the main thread is dispatching events: when it   *)
(* is idle, or inside the modal messagebox.showinfo of save_data.  Plain   *)
(* attribute reads and writes (self.recording, self.data, ...) are not     *)
(* synchronised at all.                                                    *)
(***************************************************************************)
EXTENDS Integers, Sequences, FiniteSets, Bags, TLC

(***************************** bounds **************************************)
MaxIdLen == 1
MaxStarts == 2
MaxSamples == 1
MaxTicks == 1
MaxStartsMain == 5
MaxStartsLive == 1

(***************************** constants ***********************************)
Keys == <<"EC", "EO", "Personality1", "Personality2", "Personality3">>
KeySet == {Keys[i] : i \in 1..Len(Keys)}
NumChannels == 5
Header == <<"timestamps", "TP9", "AF7", "AF8", "TP10", "Right AUX">>
NoneId == <<"None">>
NoKey == "NoKey"
Alphabet == {" ", "a"}
TickMs == {1005}
Zero == <<0, 0, 0>>
StopText == <<"Stop Recording">>

\* the button labels of __init__
InitialLabel(key) ==
    CASE key = "EC" -> <<"Record", "Eyes Closed">>
      [] key = "EO" -> <<"Record", "Eyes Opened">>
      [] key = "Personality1" -> <<"Record", "Personality 1">>
      [] key = "Personality2" -> <<"Record", "Personality 2">>
      [] key = "Personality3" -> <<"Record", "Personality 3">>

\* f"Record {key.replace('_', ' ')}": no key holds an underscore
RecordText(key) == <<"Record", key>>

(***************************** pure helpers ********************************)
\* str.strip(): drop leading and trailing blanks
RECURSIVE LStrip(_)
LStrip(s) == IF s # <<>> /\ Head(s) = " " THEN LStrip(Tail(s)) ELSE s

RECURSIVE RStrip(_)
RStrip(s) ==
    IF s # <<>> /\ s[Len(s)] = " " THEN RStrip(SubSeq(s, 1, Len(s) - 1)) ELSE s

Strip(s) == RStrip(LStrip(s))

\* truth value of participant_id in "if self.participant_id:"
Truthy(id) == id # NoneId /\ id # <<>>

\* keys.index(current_key)
IndexOf(key) == CHOOSE i \in 1..Len(Keys) : Keys[i] = key

\* get_next_key without the test of line 183: after the last key, the
\* first one again
get_next_keyWraps(current_key) ==
    Keys[(IndexOf(current_key) % Len(Keys)) + 1]

\* get_next_key: the key declared after current_key, None after the last
get_next_key(current_key) ==
    IF IndexOf(current_key) + 1 <= Len(Keys)
    THEN Keys[IndexOf(current_key) + 1]
    ELSE NoKey

\* a dict keeps insertion order; assigning an existing key keeps its place
DictHas(d, k) == \E i \in 1..Len(d) : d[i][1] = k

DictSet(d, k, v) ==
    IF DictHas(d, k)
    THEN [i \in 1..Len(d) |-> IF d[i][1] = k THEN <<k, v>> ELSE d[i]]
    ELSE Append(d, <<k, v>>)

\* f"{duration:.2f}": milliseconds rounded to hundredths of a second
Format2f(ms) == (ms + 5) \div 10

\* divmod(elapsed, 3600), divmod(remainder, 60) on int(seconds)
FormatHMS(ms) ==
    LET secs == ms \div 1000
    IN  <<secs \div 3600, (secs % 3600) \div 60, (secs % 3600) % 60>>

\* the n-th sample the inlet yields: (sample, timestamp)
Sample(n) == [values |-> [i \in 1..NumChannels |-> 10 * n + i], timestamp |-> n]

\* [timestamp] + sample
Row(n) == <<Sample(n).timestamp>> \o Sample(n).values

DataFileName(id, key) == <<id, key, "csv">>
DurationFileName(id) == <<id, "duration", "txt">>

\* writer.writerow(header); writer.writerows(self.data)
CsvContent(rows) == <<Header>> \o rows

\* update_duration_file: the id line, then one line per durations item
DurationContent(id, d) ==
    <<<<"Participant ID", id>>>> \o [i \in 1..Len(d) |-> <<d[i][1], Format2f(d[i][2])>>]

WriteFile(fs, name, content) ==
    [f \in DOMAIN fs \cup {name} |-> IF f = name THEN content ELSE fs[f]]

(***************************** state ***************************************)
VARIABLES
    \* EEGRecorderApp attributes
    inlet, recording, start_time, data, participant_id, durations,
    stopwatch_running,
    \* widgets
    status_label, text_field_frame, fieldVisible, entryText,
    btnState, btnText, stopwatch_label,
    \* main thread: where the toggle_recording stop branch stands
    guiPc, guiKey,
    \* monitor_muse_connection: the thread runs, its local connected, the
    \* signal it raised last and the number of signals raised (modulo 2)
    monitorAlive, connected, lastSignal, sigParity,
    \* daemon threads
    recThreads, swThreads,
    \* environment
    clock, nTicks, nSamples, nStarts, files,
    \* history
    openKey, openTime, window, startedKeys, completed, everId,
    discDuringRec, resetDone

appVars == <<inlet, recording, start_time, data, participant_id, durations,
             stopwatch_running>>
widgetVars == <<status_label, text_field_frame, fieldVisible, entryText,
                btnState, btnText, stopwatch_label>>
guiVars == <<guiPc, guiKey>>
monVars == <<monitorAlive, connected, lastSignal, sigParity>>
threadVars == <<recThreads, swThreads>>
envVars == <<clock, nTicks, nSamples, nStarts, files>>
histVars == <<openKey, openTime, window, startedKeys, completed, everId,
              discDuringRec, resetDone>>
vars == <<appVars, widgetVars, guiVars, monVars, threadVars, envVars, histVars>>

Init ==
    /\ inlet = FALSE
    /\ recording = FALSE
    /\ start_time = 0
    /\ data = <<>>
    /\ participant_id = NoneId
    /\ durations = <<>>
    /\ stopwatch_running = FALSE
    /\ status_label = "Not connected"
    /\ text_field_frame = FALSE
    /\ fieldVisible = FALSE
    /\ entryText = <<>>
    /\ btnState = [k \in KeySet |-> FALSE]
    /\ btnText = [k \in KeySet |-> InitialLabel(k)]
    /\ stopwatch_label = Zero
    /\ guiPc = "idle"
    /\ guiKey = NoKey
    /\ monitorAlive = TRUE
    /\ connected = FALSE
    /\ lastSignal = "none"
    /\ sigParity = 0
    /\ recThreads = EmptyBag
    /\ swThreads = EmptyBag
    /\ clock = 0
    /\ nTicks = 0
    /\ nSamples = 0
    /\ nStarts = 0
    /\ files = <<>>
    /\ openKey = NoKey
    /\ openTime = [k \in KeySet |-> 0]
    /\ window = <<>>
    /\ startedKeys = {}
    /\ completed = <<>>
    /\ everId = FALSE
    /\ discDuringRec = FALSE
    /\ resetDone = FALSE

(***************************** main thread *********************************)
\* the main thread is dispatching events: idle in mainloop, or inside the
\* modal dialog of messagebox.showinfo
InEventLoop == guiPc \in {"idle", "dialog"}

\* what one key stroke can leave in the entry
Edits(text) ==
    {text}
    \cup {Append(text, c) : c \in {x \in Alphabet : Len(text) < MaxIdLen}}
    \cup {SubSeq(text, 1, Len(text) - 1) : x \in {y \in {0} : text # <<>>}}

\* <KeyRelease> on the entry: enable_buttons
enable_buttons(text) ==
    /\ guiPc = "idle"
    /\ text_field_frame
    /\ fieldVisible
    /\ entryText' = text
    /\ participant_id' = Strip(text)
    /\ btnState' = IF Truthy(Strip(text))
                   THEN [btnState EXCEPT !["EC"] = TRUE]
                   ELSE btnState
    /\ everId' = (everId \/ Truthy(Strip(text)))
    /\ UNCHANGED <<inlet, recording, start_time, data, durations,
                   stopwatch_running>>
    /\ UNCHANGED <<status_label, text_field_frame, fieldVisible, btnText,
                   stopwatch_label>>
    /\ UNCHANGED <<guiVars, monVars, threadVars, envVars>>
    /\ UNCHANGED <<openKey, openTime, window, startedKeys, completed,
                   discDuringRec, resetDone>>

KeyRelease == \E text \in Edits(entryText) : enable_buttons(text)

NewRecThread == [pc |-> "check", held |-> 0]
\* update_stopwatch takes its own start_time as it begins
NewSwThread(now) == [pc |-> "check", start |-> now, disp |-> Zero]

\* toggle_recording, else branch (start), with start_stopwatch
StartRecording(key) ==
    /\ guiPc = "idle"
    /\ btnState[key]
    /\ ~recording
    /\ recording' = TRUE
    /\ start_time' = clock
    /\ data' = <<>>
    /\ stopwatch_running' = TRUE
    /\ swThreads' = swThreads (+) SetToBag({NewSwThread(clock)})
    /\ recThreads' = recThreads (+) SetToBag({NewRecThread})
    /\ btnText' = [btnText EXCEPT ![key] = StopText]
    /\ nStarts' = nStarts + 1
    /\ openKey' = key
    /\ openTime' = [openTime EXCEPT ![key] = clock]
    /\ window' = <<>>
    /\ startedKeys' = startedKeys \cup {key}
    /\ UNCHANGED <<inlet, participant_id, durations>>
    /\ UNCHANGED <<status_label, text_field_frame, fieldVisible, entryText,
                   btnState, stopwatch_label>>
    /\ UNCHANGED <<guiVars, monVars>>
    /\ UNCHANGED <<clock, nTicks, nSamples, files>>
    /\ resetDone' = FALSE
    /\ UNCHANGED <<completed, everId, discDuringRec>>

\* toggle_recording, if branch (stop), up to the open() of save_data:
\* the flags are cleared and the duration is entered in the mapping
StopBegin(key) ==
    /\ guiPc = "idle"
    /\ btnState[key]
    /\ recording
    /\ recording' = FALSE
    /\ stopwatch_running' = FALSE
    /\ durations' = DictSet(durations, key, clock - start_time)
    /\ guiPc' = "saving"
    /\ guiKey' = key
    /\ completed' = IF key \in startedKeys
                     THEN DictSet(completed, key, clock - openTime[key])
                     ELSE completed
    /\ UNCHANGED <<inlet, start_time, data, participant_id>>
    /\ UNCHANGED <<widgetVars, monVars, threadVars, envVars>>
    /\ discDuringRec' = FALSE
    /\ resetDone' = FALSE
    /\ UNCHANGED <<openKey, openTime, window, startedKeys, everId>>

\* save_data that returns early on an empty buffer
SaveFilesSkipEmpty(fs, id, key, rows, d, fault) ==
    IF rows = <<>> \/ fault = "data"
    THEN fs
    ELSE IF fault = "duration"
    THEN WriteFile(fs, DataFileName(id, key), CsvContent(rows))
    ELSE WriteFile(WriteFile(fs, DataFileName(id, key), CsvContent(rows)),
                   DurationFileName(id), DurationContent(id, d))

\* save_data without its call of update_duration_file
SaveFilesNoDurationUpdate(fs, id, key, rows, d, fault) ==
    CASE fault = "data" -> fs
      [] OTHER -> WriteFile(fs, DataFileName(id, key), CsvContent(rows))

\* save_data with update_duration_file called before the data file is
\* opened
SaveFilesDurationFirst(fs, id, key, rows, d, fault) ==
    CASE fault = "duration" -> fs
      [] fault = "data" -> WriteFile(fs, DurationFileName(id), DurationContent(id, d))
      [] OTHER -> WriteFile(WriteFile(fs, DurationFileName(id), DurationContent(id, d)),
                            DataFileName(id, key), CsvContent(rows))

\* save_data from open() on, with update_duration_file
SaveFiles(fs, id, key, rows, d, fault) ==
    CASE fault = "data" -> fs
      [] fault = "duration" -> WriteFile(fs, DataFileName(id, key), CsvContent(rows))
      [] OTHER -> WriteFile(WriteFile(fs, DataFileName(id, key), CsvContent(rows)),
                            DurationFileName(id), DurationContent(id, d))

\* what the file system does to one save: it works, or the open() of the
\* data file raises, or the open() of the duration file raises
Faults == {"none", "data", "duration"}

\* an uncaught OSError ends the button command; otherwise showinfo opens
StopSave(fault) ==
    /\ guiPc = "saving"
    /\ files' = SaveFiles(files, participant_id, guiKey, data, durations, fault)
    /\ guiPc' = IF fault = "none" THEN "dialog" ELSE "idle"
    /\ guiKey' = IF fault = "none" THEN guiKey ELSE NoKey
    /\ UNCHANGED <<appVars, widgetVars, monVars, threadVars>>
    /\ UNCHANGED <<clock, nTicks, nSamples, nStarts>>
    /\ UNCHANGED histVars

save_data == \E fault \in Faults : StopSave(fault)

\* the buttons after a stop: this one disabled, the next one enabled
ButtonsAfterStop(state, key) ==
    LET off == [state EXCEPT ![key] = FALSE]
    IN  IF get_next_key(key) # NoKey
        THEN [off EXCEPT ![get_next_key(key)] = TRUE]
        ELSE off

\* the dialog is dismissed: reset_stopwatch and the button updates
StopFinish ==
    /\ guiPc = "dialog"
    /\ stopwatch_label' = Zero
    /\ btnText' = [btnText EXCEPT ![guiKey] = RecordText(guiKey)]
    /\ btnState' = ButtonsAfterStop(btnState, guiKey)
    /\ guiPc' = "idle"
    /\ guiKey' = NoKey
    /\ resetDone' = TRUE
    /\ UNCHANGED <<appVars, monVars, threadVars, envVars>>
    /\ UNCHANGED <<openKey, openTime, window, startedKeys, completed, everId,
                   discDuringRec>>
    /\ UNCHANGED <<status_label, text_field_frame, fieldVisible, entryText>>

\* a press of an enabled button runs its command
toggle_recording(key) == StartRecording(key) \/ StopBegin(key)

\* the user presses an enabled button (at most MaxStarts recordings are begun)
Press ==
    \E key \in KeySet :
        /\ recording \/ nStarts < MaxStarts
        /\ toggle_recording(key)

(***************************** connection monitor **************************)
\* on_connection: the status text, then show_text_field (the frame and its
\* entry are built on the first call and only shown again afterwards)
on_connection ==
    /\ status_label' = "Connected"
    /\ text_field_frame' = TRUE
    /\ entryText' = IF text_field_frame THEN entryText ELSE <<>>
    /\ fieldVisible' = TRUE
    /\ UNCHANGED <<btnState, btnText, stopwatch_label>>
    /\ UNCHANGED <<recording, start_time, data, participant_id, durations,
                   stopwatch_running>>

\* on_disconnection that also ends the recording in progress
on_disconnectionStops ==
    /\ status_label' = "Not connected"
    /\ fieldVisible' = IF text_field_frame THEN FALSE ELSE fieldVisible
    /\ btnState' = [k \in KeySet |-> FALSE]
    /\ recording' = FALSE
    /\ stopwatch_running' = FALSE
    /\ UNCHANGED <<text_field_frame, entryText, btnText, stopwatch_label>>
    /\ UNCHANGED <<start_time, data, participant_id, durations>>

\* on_disconnection: the status text, hide_text_field, disable_buttons
on_disconnection ==
    /\ status_label' = "Not connected"
    /\ fieldVisible' = IF text_field_frame THEN FALSE ELSE fieldVisible
    /\ btnState' = [k \in KeySet |-> FALSE]
    /\ UNCHANGED <<text_field_frame, entryText, btnText, stopwatch_label>>
    /\ UNCHANGED <<recording, start_time, data, participant_id, durations,
                   stopwatch_running>>

\* what resolve_stream can do in one poll: return a stream, return none, raise
PollOutcomes == {"found", "none", "error"}

\* monitor_muse_connection without its except branch: an exception of
\* resolve_stream leaves the loop and the thread ends
MonitorPollNoCatch(outcome) ==
    /\ monitorAlive
    /\ InEventLoop
    /\ IF outcome = "error"
       THEN /\ monitorAlive' = FALSE
            /\ UNCHANGED <<appVars, widgetVars, connected, lastSignal,
                           sigParity, discDuringRec>>
       ELSE /\ monitorAlive' = TRUE
            /\ IF outcome = "found" /\ ~connected
               THEN /\ inlet' = TRUE
                    /\ on_connection
                    /\ connected' = TRUE
                    /\ lastSignal' = "connect"
                    /\ sigParity' = 1 - sigParity
                    /\ UNCHANGED discDuringRec
               ELSE IF outcome # "found" /\ connected
               THEN /\ on_disconnection
                    /\ connected' = FALSE
                    /\ lastSignal' = "disconnect"
                    /\ sigParity' = 1 - sigParity
                    /\ discDuringRec' = (discDuringRec \/ recording)
                    /\ UNCHANGED inlet
               ELSE UNCHANGED <<appVars, widgetVars, connected, lastSignal,
                                sigParity, discDuringRec>>
    /\ UNCHANGED <<guiVars, threadVars, envVars>>
    /\ UNCHANGED <<openKey, openTime, window, startedKeys, completed,
                   everId, resetDone>>

\* monitor_muse_connection without the tests of its local connected: every
\* poll calls the handler of its outcome
MonitorPollEveryPoll(outcome) ==
    /\ monitorAlive
    /\ InEventLoop
    /\ IF outcome = "found"
       THEN /\ inlet' = TRUE
            /\ on_connection
            /\ connected' = TRUE
            /\ lastSignal' = "connect"
            /\ sigParity' = 1 - sigParity
            /\ UNCHANGED discDuringRec
       ELSE /\ on_disconnection
            /\ connected' = FALSE
            /\ lastSignal' = "disconnect"
            /\ sigParity' = 1 - sigParity
            /\ discDuringRec' = (discDuringRec \/ recording)
            /\ UNCHANGED inlet
    /\ UNCHANGED <<monitorAlive, guiVars, threadVars, envVars>>
    /\ UNCHANGED <<openKey, openTime, window, startedKeys, completed,
                   everId, resetDone>>

\* one pass of the loop of monitor_muse_connection: the try block with its
\* except branch, so that no outcome ends the loop.  The handlers are widget
\* calls, which the main loop carries out.
MonitorPoll(outcome) ==
    /\ monitorAlive
    /\ InEventLoop
    /\ IF outcome = "found" /\ ~connected
       THEN /\ inlet' = TRUE
            /\ on_connection
            /\ connected' = TRUE
            /\ lastSignal' = "connect"
            /\ sigParity' = 1 - sigParity
            /\ UNCHANGED discDuringRec
       ELSE IF outcome # "found" /\ connected
       THEN /\ on_disconnection
            /\ connected' = FALSE
            /\ lastSignal' = "disconnect"
            /\ sigParity' = 1 - sigParity
            /\ discDuringRec' = (discDuringRec \/ recording)
            /\ UNCHANGED inlet
       ELSE UNCHANGED <<appVars, widgetVars, connected, lastSignal, sigParity,
                        discDuringRec>>
    /\ UNCHANGED <<monitorAlive, guiVars, threadVars, envVars>>
    /\ UNCHANGED <<openKey, openTime, window, startedKeys, completed,
                   everId, resetDone>>

monitor_muse_connection == \E outcome \in PollOutcomes : MonitorPoll(outcome)

(***************************** record_data threads *************************)
Replace(bag, old, new) == (bag (-) SetToBag({old})) (+) SetToBag({new})

\* while self.recording:
RecCheck(t) ==
    /\ t.pc = "check"
    /\ recThreads' = IF recording
                     THEN Replace(recThreads, t, [t EXCEPT !.pc = "pull"])
                     ELSE recThreads (-) SetToBag({t})
    /\ UNCHANGED <<appVars, widgetVars, guiVars, monVars, swThreads, envVars,
                   histVars>>

\* self.inlet.pull_sample() returns the next sample
RecPull(t) ==
    /\ t.pc = "pull"
    /\ nSamples < MaxSamples
    /\ nSamples' = nSamples + 1
    /\ recThreads' = Replace(recThreads, t, [pc |-> "append", held |-> nSamples + 1])
    /\ window' = IF recording THEN Append(window, nSamples + 1) ELSE window
    /\ UNCHANGED <<appVars, widgetVars, guiVars, monVars, swThreads>>
    /\ UNCHANGED <<clock, nTicks, nStarts, files>>
    /\ UNCHANGED <<openKey, openTime, startedKeys, completed, everId,
                   discDuringRec, resetDone>>

\* self.data.append([timestamp] + sample)
RecAppend(t) ==
    /\ t.pc = "append"
    /\ data' = Append(data, Row(t.held))
    /\ recThreads' = Replace(recThreads, t, [pc |-> "check", held |-> 0])
    /\ UNCHANGED <<inlet, recording, start_time, participant_id, durations,
                   stopwatch_running>>
    /\ UNCHANGED <<widgetVars, guiVars, monVars, swThreads, envVars, histVars>>

record_data == \E t \in BagToSet(recThreads) : RecCheck(t) \/ RecPull(t) \/ RecAppend(t)

(***************************** update_stopwatch threads ********************)
\* while self.stopwatch_running: the elapsed time is formatted
SwCheck(t) ==
    /\ t.pc = "check"
    /\ swThreads' = IF stopwatch_running
                    THEN Replace(swThreads, t,
                                 [t EXCEPT !.pc = "config",
                                           !.disp = FormatHMS(clock - t.start)])
                    ELSE swThreads (-) SetToBag({t})
    /\ UNCHANGED <<appVars, widgetVars, guiVars, monVars, recThreads, envVars,
                   histVars>>

\* self.stopwatch_label.config(...), then time.sleep(1)
SwConfig(t) ==
    /\ t.pc = "config"
    /\ InEventLoop
    /\ stopwatch_label' = t.disp
    /\ swThreads' = Replace(swThreads, t, [t EXCEPT !.pc = "check"])
    /\ UNCHANGED <<appVars, guiVars, monVars, recThreads, envVars, histVars>>
    /\ UNCHANGED <<status_label, text_field_frame, fieldVisible, entryText,
                   btnState, btnText>>

update_stopwatch == \E t \in BagToSet(swThreads) : SwCheck(t) \/ SwConfig(t)

(***************************** environment *********************************)
\* time.time() advances
Tick ==
    /\ nTicks < MaxTicks
    /\ \E d \in TickMs : clock' = clock + d
    /\ nTicks' = nTicks + 1
    /\ UNCHANGED <<appVars, widgetVars, guiVars, monVars, threadVars, histVars>>
    /\ UNCHANGED <<nSamples, nStarts, files>>

(***************************** specification *******************************)
Next ==
    \/ KeyRelease
    \/ Press
    \/ save_data
    \/ StopFinish
    \/ monitor_muse_connection
    \/ record_data
    \/ update_stopwatch
    \/ Tick

Spec == Init /\ [][Next]_vars

\* The behaviours in which the worker threads get no processor time, the
\* clock is not seen to advance and the file system works: the main thread
\* and the monitor alone, over more recordings.
PressMain ==
    \E key \in KeySet :
        /\ recording \/ nStarts < MaxStartsMain
        /\ toggle_recording(key)

NextMain ==
    \/ KeyRelease
    \/ PressMain
    \/ StopSave("none")
    \/ StopFinish
    \/ monitor_muse_connection

SpecMain == Init /\ [][NextMain]_vars

\* Scheduling: every thread that can take a step of its own is given the
\* processor eventually.  Nothing obliges the user to press or type, the
\* stream to yield a sample, or the monitor to see a change.
PressLive ==
    \E key \in KeySet :
        /\ recording \/ nStarts < MaxStartsLive
        /\ toggle_recording(key)

RecRun == \E t \in BagToSet(recThreads) : RecCheck(t) \/ RecAppend(t)

NextLive ==
    \/ KeyRelease
    \/ PressLive
    \/ save_data
    \/ StopFinish
    \/ monitor_muse_connection
    \/ record_data
    \/ update_stopwatch

LiveSpec ==
    /\ Init
    /\ [][NextLive]_vars
    /\ WF_vars(update_stopwatch)
    /\ WF_vars(RecRun)
    /\ WF_vars(save_data)

(***************************** claims **************************************)
\* C1: at most one segment control shows the "Stop Recording" affordance.
C1_AtMostOneRecordingSegment ==
    Cardinality({k \in KeySet : btnText[k] = StopText}) <= 1

\* C2: whenever the stop branch of toggle_recording(k) runs and save_data(k)
\* is invoked, the recording in progress was started with the same key k.
C2_StopForStartedSegment ==
    [][(guiPc = "idle" /\ guiPc' = "saving") => guiKey' = openKey]_vars

\* the segments that were started and, later, stopped
DoneKeys == {completed[i][1] : i \in 1..Len(completed)}

\* C3: the Nth control is enabled only if the (N-1)th segment has itself been
\* started and then stopped, and no control is enabled before a non-empty
\* participant identifier has been entered.
C3_EnabledInDeclaredOrder ==
    \A i \in 1..Len(Keys) :
        btnState[Keys[i]] =>
            /\ everId
            /\ i > 1 => Keys[i - 1] \in DoneKeys

\* C4: whenever the start branch runs the participant identifier is a
\* non-empty string, and whenever a control is enabled the current
\* identifier is non-empty.
C4_IdPresentWhenEnabled ==
    [][/\ (~recording /\ recording') => Truthy(participant_id)
       /\ (\E k \in KeySet : btnState'[k]) => Truthy(participant_id')]_vars

\* C5: once the handlers in flight have finished, the display matches the
\* most recent signal: after a disconnect the status reads not connected,
\* the input is hidden and every control is disabled; after a connect the
\* status reads connected and the input is shown.
C5_DisplayMatchesLastSignal ==
    guiPc = "idle" =>
        /\ lastSignal = "disconnect" =>
               /\ status_label = "Not connected"
               /\ ~fieldVisible
               /\ \A k \in KeySet : ~btnState[k]
        /\ lastSignal = "connect" =>
               /\ status_label = "Connected"
               /\ fieldVisible

\* the rows of the samples delivered in the recording window
WindowRows == [i \in 1..Len(window) |-> Row(window[i])]

\* the save of the stop action goes through
SaveDone == guiPc = "saving" /\ guiPc' = "dialog"

\* C6: the data file written at stop holds the header row followed by
\* exactly the samples delivered between the window's start and stop, in
\* delivery order.
C6_FileHoldsWindowSamples ==
    [][SaveDone =>
          /\ DataFileName(participant_id, guiKey) \in DOMAIN files'
          /\ files'[DataFileName(participant_id, guiKey)] = CsvContent(WindowRows)]_vars

\* C7: the duration file written at the latest stop is the id line followed by
\* one line per segment completed so far, in order of completion, each with
\* the time between that segment's own start and stop.
C7_DurationFilePerSegment ==
    [][SaveDone =>
          /\ DurationFileName(participant_id) \in DOMAIN files'
          /\ files'[DurationFileName(participant_id)]
                 = DurationContent(participant_id, completed)]_vars

\* the lines of a duration file that are for one segment
LinesFor(content, key) == {i \in 2..Len(content) : content[i][1] = key}

C9_NoAppendAfterStop ==
    [][(~recording /\ ~recording') => data' = data]_vars

\* C10: if a disconnect signal arrives while a recording is in progress, the
\* sample-pulling loop and the stopwatch loop both eventually terminate.
C10_LoopsEndAfterDisconnect ==
    discDuringRec ~> (recThreads = EmptyBag /\ swThreads = EmptyBag)

\* C11: at most one record_data loop is alive at any time: no two of them
\* are pulling from the inlet or appending to the buffer together.
C11_AtMostOneRecordLoop == BagCardinality(recThreads) <= 1

\* C12: the step on which the connect signal is handled leaves the recording
\* flag false, no button reading "Stop Recording" and every button disabled,
\* also when the disconnect before it came during a recording.
C12_ConnectEntersIdle ==
    [][(sigParity' # sigParity /\ lastSignal' = "connect") =>
          /\ ~recording'
          /\ \A k \in KeySet : btnText'[k] # StopText
          /\ \A k \in KeySet : ~btnState'[k]]_vars

\* C13: once a stop action has run to its end and no recording has been
\* started since, the stopwatch label reads 00:00:00, so that no
\* update_stopwatch loop has written to it after the reset.
C13_ResetIsFinal == resetDone => stopwatch_label = Zero

\* C14: an exception of the stream discovery never ends the monitor loop.
\* Raised while the monitor is connected it gives one disconnect signal and
\* sets the monitor to disconnected; raised while it is disconnected it gives
\* no signal and changes nothing; either way the monitor thread is still
\* running and polls again.
C14_ErrorKeepsMonitorRunning ==
    [][MonitorPoll("error") =>
          /\ monitorAlive'
          /\ IF connected
             THEN /\ sigParity' # sigParity
                  /\ lastSignal' = "disconnect"
                  /\ ~connected'
                  /\ status_label' = "Not connected"
             ELSE UNCHANGED <<sigParity, lastSignal, connected, appVars,
                              widgetVars>>]_vars

\* C14 witness: the monitor has gone from connected to disconnected, a
\* disconnect signal was the last one raised, and its thread is running.
C14_Witness ==
    /\ monitorAlive
    /\ ~connected
    /\ lastSignal = "disconnect"
    /\ sigParity = 0
    /\ status_label = "Not connected"

\* C16: connect and disconnect signals alternate strictly, beginning with a
\* connect: a signal is raised only on a step that flips the monitor's
\* connected, a connect when it was disconnected and a disconnect when it was
\* connected; connected changes on no other step; a poll whose outcome
\* matches the monitor's state raises no signal.
C16_SignalsAlternate ==
    [][/\ (sigParity' # sigParity) =>
              /\ connected' = ~connected
              /\ lastSignal' = IF connected THEN "disconnect" ELSE "connect"
       /\ (sigParity' = sigParity) => UNCHANGED <<connected, lastSignal>>
       /\ (lastSignal' = "connect") <=> (sigParity' = 1)
       /\ (lastSignal' = "connect") <=> connected'
       /\ (MonitorPoll("found") /\ connected) => UNCHANGED sigParity
       /\ (MonitorPoll("none") /\ ~connected) => UNCHANGED sigParity
       /\ (MonitorPoll("error") /\ ~connected) => UNCHANGED sigParity]_vars

\* C16 witness: a connect signal was raised after a disconnect signal that
\* had itself followed a connect (the disconnect came during a recording).
C16_Witness ==
    /\ connected
    /\ lastSignal = "connect"
    /\ sigParity = 1
    /\ discDuringRec

\* C15: when the open() of the data file raises during a stop, the rest of
\* the stop is not run: no file is written (the duration file is not
\* rewritten), no confirmation dialog opens, the stopwatch label is not
\* reset, no button changes state or text, and the monitor thread and the
\* other threads are as they were.
C15_FailedDataWriteAborts ==
    [][StopSave("data") =>
          /\ files' = files
          /\ guiPc' = "idle"
          /\ UNCHANGED <<stopwatch_label, btnState, btnText>>
          /\ monitorAlive'
          /\ UNCHANGED threadVars]_vars

\* C15 witness: a stop has been aborted by the failed write: the duration is
\* in self.durations, no file exists, no dialog is open and the pressed
\* button still reads "Stop Recording".
C15_Witness ==
    /\ guiPc = "idle"
    /\ ~recording
    /\ durations # <<>>
    /\ files = <<>>
    /\ \E k \in KeySet : btnText[k] = StopText /\ btnState[k]
    /\ monitorAlive

\* C17: the step that handles a disconnect signal leaves self.recording,
\* self.stopwatch_running, self.start_time, self.data, self.participant_id
\* and self.durations as they were and writes no file; the step that handles
\* a connect signal and the start of a recording leave self.durations as it
\* was; self.durations changes only in the save of a stop, and no key ever
\* leaves it.
C17_DisconnectKeepsSession ==
    [][/\ (sigParity' # sigParity /\ lastSignal' = "disconnect") =>
              UNCHANGED <<recording, stopwatch_running, start_time, data,
                          participant_id, durations, files>>
       /\ (sigParity' # sigParity /\ lastSignal' = "connect") =>
              UNCHANGED durations
       /\ (~recording /\ recording') => UNCHANGED durations
       /\ (durations' # durations) =>
              (recording /\ ~recording' /\ guiPc = "idle" /\ guiPc' = "saving")
       /\ \A i \in 1..Len(durations) : DictHas(durations', durations[i][1])]_vars

\* C17 witness: a disconnect signal was handled during the second recording:
\* the flags are still set and the first segment's duration is still held.
C17_Witness ==
    /\ ~connected
    /\ lastSignal = "disconnect"
    /\ discDuringRec
    /\ recording
    /\ stopwatch_running
    /\ durations # <<>>

\* C18: the steps of a stop for key k change no button's state before the
\* dialog is dismissed; the step that completes it leaves k's button
\* disabled and the button of the key after k enabled and changes the state
\* of no other button; for the last key it enables no button.
C18_StopMovesToNextSegment ==
    [][/\ (guiPc = "dialog" /\ guiPc' = "idle") =>
              /\ ~btnState'[guiKey]
              /\ (get_next_key(guiKey) # NoKey) => btnState'[get_next_key(guiKey)]
              /\ \A k \in KeySet \ {guiKey, get_next_key(guiKey)} :
                     btnState'[k] = btnState[k]
              /\ (guiKey = Keys[Len(Keys)]) =>
                     \A k \in KeySet : btnState'[k] => btnState[k]
       /\ ((guiPc = "idle" /\ guiPc' = "saving") \/
           (guiPc = "saving" /\ guiPc' = "dialog")) =>
              UNCHANGED btnState]_vars

\* C18 witness: the stop of the last segment has completed after the stops
\* of the four before it: its button is disabled and reads "Record" again.
C18_Witness ==
    /\ guiPc = "idle"
    /\ ~recording
    /\ DoneKeys = KeySet
    /\ btnText[Keys[Len(Keys)]] = RecordText(Keys[Len(Keys)])
    /\ \A k \in KeySet : ~btnState[k]

\* C19: the participant identifier is stable across a recording: no step
\* taken while self.recording is set changes self.participant_id, so the
\* identifier that names the files at the stop is the one of the start.
C19_IdStableWhileRecording ==
    [][recording => participant_id' = participant_id]_vars

\* C20 as stated: every segment line of every duration file has a data file
\* of the same participant and segment.
C20_DurationLinesHaveDataFiles ==
    \A f \in DOMAIN files :
        f[3] = "txt" =>
            \A key \in KeySet :
                LinesFor(files[f], key) # {} =>
                    DataFileName(f[1], key) \in DOMAIN files

\* C20 amended: a save that goes through leaves the data file of the current
\* participant and the stopped segment, holding the buffer, and the duration
\* file of that participant with one line for that segment; the other lines
\* of the duration file are the other entries of self.durations, whether or
\* not this participant has a data file for them.
C20_SavedSegmentInSync ==
    [][SaveDone =>
          /\ DataFileName(participant_id, guiKey) \in DOMAIN files'
          /\ files'[DataFileName(participant_id, guiKey)] = CsvContent(data)
          /\ DurationFileName(participant_id) \in DOMAIN files'
          /\ Cardinality(LinesFor(files'[DurationFileName(participant_id)],
                                  guiKey)) = 1
          /\ \A key \in KeySet :
                 (LinesFor(files'[DurationFileName(participant_id)], key) # {})
                     <=> DictHas(durations, key)]_vars

\* C20 witness: a save has gone through for the current participant, whose
\* duration file also has a line for a segment with no data file of theirs.
C20_Witness ==
    /\ guiPc = "dialog"
    /\ DataFileName(participant_id, guiKey) \in DOMAIN files
    /\ DurationFileName(participant_id) \in DOMAIN files
    /\ LinesFor(files[DurationFileName(participant_id)], guiKey) # {}
    /\ \E key \in KeySet :
           /\ LinesFor(files[DurationFileName(participant_id)], key) # {}
           /\ DataFileName(participant_id, key) \notin DOMAIN files

====
